---------------------------- MODULE Spec2Model ----------------------------
(***************************************************************************)
(* Model of the Wellness Bot (CMPSC30_WellAss_RichardWong.cpp): one        *)
(* interactive session of main(): collectUserData, calculateMetrics,       *)
(* displayResults / provideRecommendations.                                *)
(*                                                                         *)
(* Representation of the C++ values:                                       *)
(*   - a std::string (and a line of stdin) is a tuple of one-character     *)
(*     strings;                                                            *)
(*   - height and weight (double) are integers counting hundredths, so     *)
(*     1.55 m is 155 and 46.4 kg is 4640 (the input lines of the model     *)
(*     carry at most two decimals);                                        *)
(*   - bmr is an integer counting 1/100000 kcal, which is exact for the    *)
(*     three-decimal coefficients of the formula;                          *)
(*   - bmi is the exact quotient [num, den];                               *)
(*   - an activity multiplier counts fortieths (1.2 = 48/40, 1.375 =       *)
(*     55/40, 1.55 = 62/40, 1.725 = 69/40); dailyCalories is the exact     *)
(*     product bmr * multiplier kept as its two factors, because its value *)
(*     in 1/4000000 kcal does not fit the 32-bit integers of TLC;          *)
(*   - a macro ratio counts tenths;                                        *)
(*   - what "fixed << setprecision(2)" prints is an integer of hundredths. *)
(* Arithmetic is exact decimal arithmetic; the binary rounding of double   *)
(* is not modelled.                                                        *)
(***************************************************************************)
EXTENDS Integers, Sequences, FiniteSets, TLC

VARIABLES
    pc,          \* position of main(): the field being prompted, or a later stage
    profile,     \* the UserProfile
    assigned,    \* the fields of profile that have been assigned (the rest are uninitialised)
    buf,         \* unread rest of the current stdin line
    eof,         \* stdin has reached end of file
    out,         \* what the last step printed
    last,        \* the last read attempt: field, text read, where it came from, outcome
    rejected,    \* number of read attempts that failed so far, counted up to MaxRejected
    results,     \* what displayResults / provideRecommendations selected and printed
    calcRuns,    \* calls of calculateMetrics
    displayRuns, \* calls of displayResults
    thrown,      \* an exception reached the catch of main()
    exitCode     \* return value of main(), once returned

vars == <<pc, profile, assigned, buf, eof, out, last, rejected, results,
          calcRuns, displayRuns, thrown, exitCode>>

\* Bound of the model: failed read attempts of one session that are counted.
MaxRejected == 2

-----------------------------------------------------------------------------
(* Text *)

male == <<"m","a","l","e">>
female == <<"f","e","m","a","l","e">>
sedentary == <<"s","e","d","e","n","t","a","r","y">>
lightlyActive == <<"l","i","g","h","t","l","y"," ","a","c","t","i","v","e">>
moderatelyActive == <<"m","o","d","e","r","a","t","e","l","y"," ","a","c","t","i","v","e">>
veryActive == <<"v","e","r","y"," ","a","c","t","i","v","e">>
smoking == <<"s","m","o","k","i","n","g">>
alcohol == <<"a","l","c","o","h","o","l">>
none == <<"n","o","n","e">>
vegetarian == <<"v","e","g","e","t","a","r","i","a","n">>
vegan == <<"v","e","g","a","n">>

UpperCase == <<"A","B","C","D","E","F","G","H","I","J","K","L","M",
               "N","O","P","Q","R","S","T","U","V","W","X","Y","Z">>
LowerCase == <<"a","b","c","d","e","f","g","h","i","j","k","l","m",
               "n","o","p","q","r","s","t","u","v","w","x","y","z">>

\* ::tolower on one character
tolower(c) ==
    IF \E i \in 1..Len(UpperCase) : UpperCase[i] = c
    THEN LowerCase[CHOOSE i \in 1..Len(UpperCase) : UpperCase[i] = c]
    ELSE c

\* transform(s.begin(), s.end(), s.begin(), ::tolower)
transformToLower(s) == [i \in 1..Len(s) |-> tolower(s[i])]

-----------------------------------------------------------------------------
(* Constant tables of WellnessBot *)

\* Faulty variant of ACTIVITY_MULTIPLIERS: the second level is spelled with a
\* hyphen, as in the data model of the specification.
ActivityMultipliersHyphenated ==
    << [level |-> sedentary,        multiplier |-> 48],
       [level |-> <<"l","i","g","h","t","l","y","-","a","c","t","i","v","e">>,
        multiplier |-> 55],
       [level |-> moderatelyActive, multiplier |-> 62],
       [level |-> veryActive,       multiplier |-> 69] >>

ACTIVITY_MULTIPLIERS ==
    << [level |-> sedentary,        multiplier |-> 48],
       [level |-> lightlyActive,    multiplier |-> 55],
       [level |-> moderatelyActive, multiplier |-> 62],
       [level |-> veryActive,       multiplier |-> 69] >>

\* Faulty variant of MacroRatio: the fats share is 20%, so the shares do not
\* add up to the whole.
MacroRatioFatsTooLow == [carbs |-> 5, protein |-> 2, fats |-> 2]

MacroRatio == [carbs |-> 5, protein |-> 2, fats |-> 3]

CALORIES_PER_GRAM_PROTEIN == 4
CALORIES_PER_GRAM_CARBS == 4
CALORIES_PER_GRAM_FAT == 9

\* in tenths
bmiThresholds == [underweight |-> 185, normal |-> 249, overweight |-> 299]

-----------------------------------------------------------------------------
(* Input validation functions *)

isValidGender(gender) ==
    LET lower == transformToLower(gender)
    IN  lower = male \/ lower = female

isValidActivityLevel(level) ==
    LET lower == transformToLower(level)
    IN  lower = sedentary \/ lower = lightlyActive
        \/ lower = moderatelyActive \/ lower = veryActive

isValidLifestyle(lifestyle) ==
    LET lower == transformToLower(lifestyle)
    IN  lower = smoking \/ lower = alcohol \/ lower = none

isValidDietaryPref(pref) ==
    LET lower == transformToLower(pref)
    IN  lower = vegetarian \/ lower = vegan \/ lower = none

-----------------------------------------------------------------------------
(* operator>> of std::istream, on the unread text of a line *)

DigitChars == <<"0","1","2","3","4","5","6","7","8","9">>

IsDigit(c) == \E i \in 1..Len(DigitChars) : DigitChars[i] = c

DigitValue(c) == (CHOOSE i \in 1..Len(DigitChars) : DigitChars[i] = c) - 1

\* isspace, for the characters a line of the model can hold
IsSpace(c) == c = " "

\* numeric_limits<int>::max()
INT_MAX == 2147483647

\* the leading whitespace that operator>> skips
RECURSIVE SkipSpace(_)
SkipSpace(s) ==
    IF s # <<>> /\ IsSpace(Head(s)) THEN SkipSpace(Tail(s)) ELSE s

RECURSIVE DigitRunLen(_)
DigitRunLen(s) ==
    IF s # <<>> /\ IsDigit(Head(s)) THEN 1 + DigitRunLen(Tail(s)) ELSE 0

\* value of a run of digits, saturating at INT_MAX (an int that overflows)
RECURSIVE DecimalValue(_, _)
DecimalValue(digits, acc) ==
    IF digits = <<>> THEN acc
    ELSE LET d == DigitValue(Head(digits))
         IN  IF acc > (INT_MAX - d) \div 10
             THEN INT_MAX
             ELSE DecimalValue(Tail(digits), acc * 10 + d)

\* the first two fractional digits, as hundredths
FracHundredths(digits) ==
    (IF Len(digits) >= 1 THEN 10 * DigitValue(digits[1]) ELSE 0)
    + (IF Len(digits) >= 2 THEN DigitValue(digits[2]) ELSE 0)

\* cin >> value for int: optional sign, then digits; fails (value not usable)
\* when no digit follows or the number does not fit an int
ExtractInt(s) ==
    LET t      == SkipSpace(s)
        signed == t # <<>> /\ Head(t) \in {"+", "-"}
        u      == IF signed THEN Tail(t) ELSE t
        n      == DigitRunLen(u)
        mag    == DecimalValue(SubSeq(u, 1, n), 0)
        ok     == n > 0 /\ mag < INT_MAX
    IN  [ok    |-> ok,
         value |-> IF n = 0 THEN 0
                   ELSE IF signed /\ Head(t) = "-" THEN 0 - mag ELSE mag,
         rest  |-> SubSeq(u, n + 1, Len(u))]

\* cin >> value for double: optional sign, digits, optional point and digits;
\* the value in hundredths
ExtractDouble(s) ==
    LET t        == SkipSpace(s)
        signed   == t # <<>> /\ Head(t) \in {"+", "-"}
        u        == IF signed THEN Tail(t) ELSE t
        ni       == DigitRunLen(u)
        afterInt == SubSeq(u, ni + 1, Len(u))
        point    == afterInt # <<>> /\ Head(afterInt) = "."
        fracs    == IF point THEN Tail(afterInt) ELSE afterInt
        nf       == IF point THEN DigitRunLen(fracs) ELSE 0
        whole    == DecimalValue(SubSeq(u, 1, ni), 0)
        mag      == IF whole > (INT_MAX \div 100) - 1
                    THEN INT_MAX
                    ELSE whole * 100 + FracHundredths(SubSeq(fracs, 1, nf))
        ok       == ni + nf > 0
    IN  [ok    |-> ok,
         value |-> IF ~ok THEN 0
                   ELSE IF signed /\ Head(t) = "-" THEN 0 - mag ELSE mag,
         rest  |-> IF ok THEN SubSeq(fracs, nf + 1, Len(fracs)) ELSE u]

-----------------------------------------------------------------------------
(* The fields of collectUserData *)

FieldOrder == <<"age", "gender", "height", "weight",
                "activityLevel", "sleepHours", "lifestyle", "dietaryPref">>

NumericFields == {"age", "height", "weight", "sleepHours"}
StringFields  == {"gender", "activityLevel", "lifestyle", "dietaryPref"}

\* getValidInput<int> for age and sleepHours, getValidInput<double> for the rest
Extract(f, s) ==
    IF f \in {"age", "sleepHours"} THEN ExtractInt(s) ELSE ExtractDouble(s)

\* min_value and max_value of each call (height and weight in hundredths)
MinValue(f) ==
    CASE f = "age" -> 1 [] f = "height" -> 50
      [] f = "weight" -> 2000 [] f = "sleepHours" -> 0

MaxValue(f) ==
    CASE f = "age" -> 120 [] f = "height" -> 250
      [] f = "weight" -> 30000 [] f = "sleepHours" -> 24

\* Faulty variant of InRange: the lower bound is not tested.
InRangeUpperOnly(value, min_value, max_value) == value <= max_value

\* value >= min_value && value <= max_value
InRange(value, min_value, max_value) ==
    value >= min_value /\ value <= max_value

validationFunc(f, input) ==
    CASE f = "gender"        -> isValidGender(input)
      [] f = "activityLevel" -> isValidActivityLevel(input)
      [] f = "lifestyle"     -> isValidLifestyle(input)
      [] f = "dietaryPref"   -> isValidDietaryPref(input)

\* Faulty variant of acceptedInput: the input is returned as it was typed.
acceptedInputAsTyped(input) == input

\* what getValidStringInput returns for an input that passed validationFunc
acceptedInput(input) == transformToLower(input)

Prompt(f) ==
    CASE f = "age"           -> "Enter your age: "
      [] f = "gender"        -> "Enter your gender (male/female): "
      [] f = "height"        -> "Enter your height (in meters): "
      [] f = "weight"        -> "Enter your weight (in kg): "
      [] f = "activityLevel" -> "Enter your activity level (sedentary, lightly active, moderately active, very active): "
      [] f = "sleepHours"    -> "Enter your hours of sleep per night: "
      [] f = "lifestyle"     -> "Enter your lifestyle habits (smoking, alcohol, none): "
      [] f = "dietaryPref"   -> "Enter your dietary preferences (vegetarian, vegan, none): "

\* the retry message of getValidInput (numeric) and of getValidStringInput
InvalidMessage(f) ==
    CASE f = "age"        -> "Invalid input. Please enter a value between 1 and 120"
      [] f = "height"     -> "Invalid input. Please enter a value between 0.5 and 2.5"
      [] f = "weight"     -> "Invalid input. Please enter a value between 20 and 300"
      [] f = "sleepHours" -> "Invalid input. Please enter a value between 0 and 24"
      [] OTHER            -> "Invalid input. Please try again."

\* where main() goes once field f has its value
Following(f) ==
    LET i == CHOOSE k \in 1..Len(FieldOrder) : FieldOrder[k] = f
    IN  IF i < Len(FieldOrder) THEN FieldOrder[i + 1] ELSE "calculateMetrics"

\* what is printed between accepting f and blocking on the next read
AfterAccept(f) ==
    IF Following(f) \in NumericFields \cup StringFields
    THEN <<Prompt(Following(f))>>
    ELSE <<>>

-----------------------------------------------------------------------------
(* Lines the user may enter at each prompt *)

Lines(f) ==
    CASE f = "age" ->
           { <<"0">>, <<"1">>, <<"7","2">>, <<"1","2","0">>, <<"1","2","1">>,
             <<"a","b","c">>, <<>>, <<"7","2","a","b","c">>,
             <<"9","9","9","9","9","9","9","9","9","9","9">> }
      [] f = "gender" ->
           { male, female, <<"M","A","L","E">>, <<"M","a","l","e">>,
             <<"F","e","m","a","l","e">>, <<" ","m","a","l","e">>,
             <<"m","a","l","e","s">>, <<>> }
      [] f = "height" ->
           { <<"0",".","4">>, <<"0",".","5">>, <<"1",".","5","5">>, <<"2">>,
             <<"2",".","5">>, <<"2",".","6">>, <<"2"," ","7","4">>,
             <<"2"," ","a","b","c">>, <<"a","b","c">>, <<>> }
      [] f = "weight" ->
           { <<"1","9",".","9">>, <<"2","0">>, <<"4","6",".","4">>, <<"7","4">>,
             <<"9","9",".","6">>, <<"1","1","9",".","6">>, <<"3","0","0">>,
             <<"3","0","0",".","1">>, <<"a","b","c">>, <<>> }
      [] f = "activityLevel" ->
           { sedentary, lightlyActive, moderatelyActive, veryActive,
             <<"V","e","r","y"," ","A","c","t","i","v","e">>,
             <<"l","i","g","h","t","l","y","-","a","c","t","i","v","e">>, <<>> }
      [] f = "sleepHours" ->
           { <<"-","1">>, <<"0">>, <<"2","4">>, <<"2","5">>, <<"0",".","5">>,
             <<"a","b","c">>, <<>> }
      [] f = "lifestyle" ->
           { smoking, alcohol, none, <<"N","O","N","E">>, vegan }
      [] f = "dietaryPref" ->
           { vegetarian, vegan, none, <<"V","e","g","a","n">>, smoking }

-----------------------------------------------------------------------------
(* calculateMetrics *)

\* profile.weight / pow(profile.height, 2), as the exact quotient
BMI(weight, height) == [num |-> weight * 100, den |-> height * height]

\* the two branches of the BMR computation, in 1/100000 kcal
maleBMR(weight, height, age) ==
    8836200 + (13397 * weight) + (479900 * height) - (567700 * age)

femaleBMR(weight, height, age) ==
    44759300 + (9247 * weight) + (309800 * height) - (433000 * age)

\* Faulty variant of BMR: the two formulas are exchanged.
BMRExchanged(gender, weight, height, age) ==
    IF gender = male
    THEN femaleBMR(weight, height, age)
    ELSE maleBMR(weight, height, age)

BMR(gender, weight, height, age) ==
    IF gender = male
    THEN maleBMR(weight, height, age)
    ELSE femaleBMR(weight, height, age)

\* the entries of ACTIVITY_MULTIPLIERS whose level equals activityLevel
ActivityMatches(activityLevel) ==
    { i \in 1..Len(ACTIVITY_MULTIPLIERS) :
        ACTIVITY_MULTIPLIERS[i].level = activityLevel }

\* profile.bmr * activity.multiplier, the product kept as its factors
Product(bmr, multiplier) == [bmr |-> bmr, multiplier |-> multiplier]

-----------------------------------------------------------------------------
(* displayResults and provideRecommendations *)

\* bmi < threshold and bmi >= threshold, the threshold in tenths
Below(bmi, threshold) == bmi.num * 10 < threshold * bmi.den
AtLeast(bmi, threshold) == bmi.num * 10 >= threshold * bmi.den

\* Faulty variant of BMICategory: each test is <=, so a bmi on a threshold
\* falls in the band below it.
BMICategoryInclusive(bmi) ==
    IF bmi.num * 10 <= bmiThresholds.underweight * bmi.den THEN "Underweight"
    ELSE IF bmi.num * 10 <= bmiThresholds.normal * bmi.den THEN "Normal weight"
    ELSE IF bmi.num * 10 <= bmiThresholds.overweight * bmi.den THEN "Overweight"
    ELSE "Obese"

BMICategory(bmi) ==
    IF Below(bmi, bmiThresholds.underweight) THEN "Underweight"
    ELSE IF Below(bmi, bmiThresholds.normal) THEN "Normal weight"
    ELSE IF Below(bmi, bmiThresholds.overweight) THEN "Overweight"
    ELSE "Obese"

\* a * k / c rounded to the nearest integer, without forming a * k
MulDivRound(a, k, c) ==
    (a \div c) * k + (((a % c) * k) + (c \div 2)) \div c

\* fixed << setprecision(2) of bmr and of dailyCalories: hundredths
ShownBMR(bmr) == MulDivRound(bmr, 1, 1000)
ShownCalories(dc) == MulDivRound(dc.bmr, dc.multiplier, 40000)

\* dailyCalories * ratio / caloriesPerGram as printed: hundredths of a gram
ShownGrams(dc, ratio, caloriesPerGram) ==
    MulDivRound(dc.bmr, dc.multiplier * ratio, 400000 * caloriesPerGram)

\* Faulty variant of ExerciseBlock: the test is > instead of >=.
ExerciseBlockStrict(bmi) ==
    IF bmi.num * 10 > bmiThresholds.normal * bmi.den
    THEN "low-impact activities"
    ELSE "balanced exercise routine"

ExerciseBlock(bmi) ==
    IF AtLeast(bmi, bmiThresholds.normal)
    THEN "low-impact activities"
    ELSE "balanced exercise routine"

SleepBlock(sleepHours) ==
    IF sleepHours < 7 THEN "increase sleep" ELSE "maintain sleep habits"

DietBlock(dietaryPref) ==
    IF dietaryPref = vegetarian THEN "vegetarian"
    ELSE IF dietaryPref = vegan THEN "vegan"
    ELSE "lean protein"

LifestyleBlock(lifestyle) ==
    IF lifestyle # none
    THEN IF lifestyle = smoking THEN "smoking cessation"
         ELSE IF lifestyle = alcohol THEN "limit alcohol"
         ELSE "heading only"
    ELSE "absent"

\* the block provideRecommendations prints in each of its four sections
provideRecommendations(p) ==
    [exercise  |-> ExerciseBlock(p.bmi),
     sleep     |-> SleepBlock(p.sleepHours),
     diet      |-> DietBlock(p.dietaryPref),
     lifestyle |-> LifestyleBlock(p.lifestyle)]

\* what an uninitialised dailyCalories may hold when it is read
IndeterminateCalories == { Product(0, 0), Product(0 - 100000, 40) }

\* the value displayResults reads from profile.dailyCalories
ReadDailyCalories ==
    IF "dailyCalories" \in assigned
    THEN { profile.dailyCalories }
    ELSE IndeterminateCalories

\* Faulty variant of mainReturn: the session always ends with 1.
mainReturnAlwaysOne(caught) == 1

\* return value of main()
mainReturn(caught) == IF caught THEN 1 ELSE 0

-----------------------------------------------------------------------------
(* The session *)

NoRead == [field |-> "", text |-> <<>>, source |-> "", outcome |-> ""]

NoResults ==
    [category |-> "", bmr |-> 0, dailyCalories |-> 0,
     carbs |-> 0, protein |-> 0, fats |-> 0,
     exercise |-> "", sleep |-> "", diet |-> "", lifestyle |-> ""]

\* UserProfile profile; the strings are empty and the numbers uninitialised:
\* what the record holds for a field outside assigned has no meaning
NewProfile ==
    [age |-> 0, gender |-> <<>>, height |-> 0, weight |-> 0,
     activityLevel |-> <<>>, sleepHours |-> 0,
     lifestyle |-> <<>>, dietaryPref |-> <<>>,
     bmi |-> BMI(0, 1), bmr |-> 0, dailyCalories |-> Product(0, 0)]

Init ==
    /\ pc = "age"
    /\ profile = NewProfile
    /\ assigned = StringFields
    /\ buf = <<>>
    /\ eof = FALSE
    /\ out = <<"Welcome to the Wellness Bot!", Prompt("age")>>
    /\ last = NoRead
    /\ rejected = 0
    /\ results = NoResults
    /\ calcRuns = 0
    /\ displayRuns = 0
    /\ thrown = FALSE
    /\ exitCode = 0 - 1

\* the read succeeded and the loop is left: the value is stored by
\* collectUserData, which discards the rest of the line after age, weight and
\* sleepHours (cin.ignore) but not after height
Accept(f, value, rest, text, source) ==
    /\ profile' = [profile EXCEPT ![f] = value]
    /\ assigned' = assigned \cup {f}
    /\ pc' = Following(f)
    /\ buf' = IF f = "height" THEN rest ELSE <<>>
    /\ out' = AfterAccept(f)
    /\ last' = [field |-> f, text |-> text, source |-> source,
                outcome |-> "accepted"]
    /\ UNCHANGED <<rejected, results, calcRuns, displayRuns, thrown, exitCode>>

\* the read failed: the message, then the loop prompts again
Reject(f, text, source) ==
    /\ rejected' = IF rejected < MaxRejected THEN rejected + 1 ELSE rejected
    /\ buf' = <<>>
    /\ out' = <<InvalidMessage(f), Prompt(f)>>
    /\ last' = [field |-> f, text |-> text, source |-> source,
                outcome |-> "rejected"]
    /\ UNCHANGED <<pc, profile, assigned, results, calcRuns, displayRuns,
                   thrown, exitCode>>

\* one iteration of getValidInput on text s: cin >> value, the range test,
\* and on failure cin.clear() and cin.ignore() of the rest of the line
Attempt(f, s, source) ==
    LET r == Extract(f, s)
    IN  IF r.ok /\ InRange(r.value, MinValue(f), MaxValue(f))
        THEN Accept(f, r.value, r.rest, s, source) /\ UNCHANGED eof
        ELSE Reject(f, s, source) /\ UNCHANGED eof

\* getValidInput for field f, from one read of stdin to the next
getValidInput(f) ==
    /\ pc = f
    /\ f \in NumericFields
    /\ \/ /\ SkipSpace(buf) # <<>>
          /\ Attempt(f, buf, "leftover")
       \/ /\ SkipSpace(buf) = <<>>
          /\ ~eof
          /\ \E line \in Lines(f) :
                /\ SkipSpace(line) # <<>>
                /\ Attempt(f, line, "line")
       \/ /\ SkipSpace(buf) = <<>>
          /\ ~eof
          /\ \E line \in Lines(f) :
                /\ SkipSpace(line) = <<>>
                /\ buf' = <<>>
                /\ out' = <<>>
                /\ last' = [field |-> f, text |-> line, source |-> "line",
                            outcome |-> "skipped"]
                /\ UNCHANGED <<pc, profile, assigned, eof, rejected, results,
                               calcRuns, displayRuns, thrown, exitCode>>
       \/ /\ SkipSpace(buf) = <<>>
          /\ eof' = TRUE
          /\ Reject(f, <<>>, "eof")

\* getValidStringInput for field f, from one getline to the next
getValidStringInput(f) ==
    /\ pc = f
    /\ f \in StringFields
    /\ \/ /\ ~eof
          /\ \E input \in Lines(f) :
                IF validationFunc(f, input)
                THEN Accept(f, acceptedInput(input), <<>>, input, "line")
                     /\ UNCHANGED eof
                ELSE Reject(f, input, "line") /\ UNCHANGED eof
       \/ /\ eof' = TRUE
          /\ Reject(f, <<>>, "eof")

calculateMetrics ==
    /\ pc = "calculateMetrics"
    /\ LET bmi == BMI(profile.weight, profile.height)
           bmr == BMR(profile.gender, profile.weight, profile.height, profile.age)
           found == ActivityMatches(profile.activityLevel)
           first == CHOOSE i \in found : \A j \in found : i <= j
       IN  /\ profile' =
                IF found # {}
                THEN [profile EXCEPT
                        !.bmi = bmi, !.bmr = bmr,
                        !.dailyCalories =
                            Product(bmr, ACTIVITY_MULTIPLIERS[first].multiplier)]
                ELSE [profile EXCEPT !.bmi = bmi, !.bmr = bmr]
           /\ assigned' = assigned \cup {"bmi", "bmr"}
                \cup (IF found # {} THEN {"dailyCalories"} ELSE {})
    /\ calcRuns' = calcRuns + 1
    /\ pc' = "displayResults"
    /\ out' = <<>>
    /\ last' = NoRead
    /\ UNCHANGED <<buf, eof, rejected, results, displayRuns, thrown, exitCode>>

\* displayResults with its call of provideRecommendations, then the end of
\* main(): the closing line and return 0
displayResults ==
    /\ pc = "displayResults"
    /\ \E dc \in ReadDailyCalories :
          LET macros == MacroRatio
              advice == provideRecommendations(profile)
          IN  results' =
                [category      |-> BMICategory(profile.bmi),
                 bmr           |-> ShownBMR(profile.bmr),
                 dailyCalories |-> ShownCalories(dc),
                 carbs         |-> ShownGrams(dc, macros.carbs, CALORIES_PER_GRAM_CARBS),
                 protein       |-> ShownGrams(dc, macros.protein, CALORIES_PER_GRAM_PROTEIN),
                 fats          |-> ShownGrams(dc, macros.fats, CALORIES_PER_GRAM_FAT),
                 exercise      |-> advice.exercise,
                 sleep         |-> advice.sleep,
                 diet          |-> advice.diet,
                 lifestyle     |-> advice.lifestyle]
    /\ displayRuns' = displayRuns + 1
    /\ out' = <<"=== Wellness Assessment Results ===",
                "=== Personalized Recommendations ===",
                "Thank you for using Wellness Bot! Stay healthy!">>
    /\ pc' = "exit"
    /\ exitCode' = mainReturn(FALSE)
    /\ UNCHANGED <<profile, assigned, buf, eof, last, rejected, calcRuns, thrown>>

\* an exception (std::bad_alloc of a string copy made while validating a
\* line) leaves the try block of main(): the profile local to
\* collectUserData is destroyed, the catch reports the error and returns 1
Throw ==
    /\ pc \in StringFields
    /\ thrown' = TRUE
    /\ profile' = NewProfile
    /\ assigned' = {}
    /\ out' = <<"An error occurred: ">>
    /\ pc' = "exit"
    /\ exitCode' = mainReturn(TRUE)
    /\ UNCHANGED <<buf, eof, last, rejected, results, calcRuns, displayRuns>>

Next ==
    \/ \E f \in NumericFields : getValidInput(f)
    \/ \E f \in StringFields : getValidStringInput(f)
    \/ calculateMetrics
    \/ displayResults
    \/ Throw

Spec == Init /\ [][Next]_vars

\* The steps that move main() forward other than by an exception: a read
\* that is accepted, a read that needs no new line because the current line
\* still holds unread text, and the two stages after collectUserData.
Advance ==
    /\ \/ \E f \in NumericFields : getValidInput(f)
       \/ \E f \in StringFields : getValidStringInput(f)
       \/ calculateMetrics
       \/ displayResults
    /\ pc' # pc \/ SkipSpace(buf) # <<>>

\* The program keeps running, and at every prompt an acceptable line is
\* eventually entered: weak fairness of Advance.
LiveSpec == Spec /\ WF_vars(Advance)

-----------------------------------------------------------------------------
(* Properties *)

RawFields == NumericFields \cup StringFields

\* the domains of the eight raw fields (height and weight in hundredths)
ValidProfile ==
    /\ RawFields \subseteq assigned
    /\ profile.age \in 1..120
    /\ profile.height \in 50..250
    /\ profile.weight \in 2000..30000
    /\ profile.sleepHours \in 0..24
    /\ profile.gender \in {male, female}
    /\ profile.activityLevel \in
          {sedentary, lightlyActive, moderatelyActive, veryActive}
    /\ profile.lifestyle \in {smoking, alcohol, none}
    /\ profile.dietaryPref \in {vegetarian, vegan, none}

\* C1: whatever lines were entered, from the moment calculateMetrics is
\* invoked the profile is complete and every raw field is inside its domain
\* (bounds inclusive), and no results or recommendations are printed before
\* calculateMetrics has run on such a profile.
C1_ProfileValidBeforeMetrics ==
    /\ (pc \in {"calculateMetrics", "displayResults"} \/ calcRuns > 0)
          => ValidProfile
    /\ (results # NoResults \/ displayRuns > 0)
          => (calcRuns > 0 /\ ValidProfile)

\* C1 witness: results were printed for a profile holding the boundary age
\* 120 after some entries had been rejected.
C1_Witness ==
    /\ displayRuns = 1
    /\ rejected > 0
    /\ profile.age = 120
    /\ profile.sleepHours = 0

\* C2: the printed category is Underweight below 18.5, Normal weight from
\* 18.5 to below 24.9, Overweight from 24.9 to below 29.9 and Obese from 29.9;
\* a bmi on a threshold belongs to the band that starts there.
C2_CategoryBands ==
    displayRuns > 0 =>
        LET n == profile.bmi.num * 10
            d == profile.bmi.den
        IN  /\ results.category \in
                  {"Underweight", "Normal weight", "Overweight", "Obese"}
            /\ results.category = "Underweight" <=> n < 185 * d
            /\ results.category = "Normal weight" <=> (185 * d <= n /\ n < 249 * d)
            /\ results.category = "Overweight" <=> (249 * d <= n /\ n < 299 * d)
            /\ results.category = "Obese" <=> 299 * d <= n

\* C2 witness: a bmi of exactly 18.5 (74 kg, 2 m) printed as Normal weight.
C2_Witness ==
    /\ displayRuns > 0
    /\ profile.bmi.num * 10 = 185 * profile.bmi.den
    /\ results.category = "Normal weight"

\* C3: once calculateMetrics has run, dailyCalories is set, and it is bmr
\* times the multiplier of the stored activityLevel: 1.2, 1.375, 1.55, 1.725
\* (48, 55, 62, 69 fortieths); the lookup finds an entry for every profile
\* collectUserData returns.
C3_DailyCaloriesSet ==
    /\ pc = "calculateMetrics" => ActivityMatches(profile.activityLevel) # {}
    /\ calcRuns > 0 =>
          /\ "dailyCalories" \in assigned
          /\ profile.dailyCalories.bmr = profile.bmr
          /\ profile.dailyCalories.multiplier =
                (CASE profile.activityLevel = sedentary -> 48
                   [] profile.activityLevel = lightlyActive -> 55
                   [] profile.activityLevel = moderatelyActive -> 62
                   [] profile.activityLevel = veryActive -> 69
                   [] OTHER -> 0)

\* C3 witness: calculateMetrics ran on a lightly active profile and set
\* dailyCalories with the multiplier 1.375.
C3_Witness ==
    /\ calcRuns > 0
    /\ profile.activityLevel = lightlyActive
    /\ "dailyCalories" \in assigned
    /\ profile.dailyCalories.multiplier = 55

\* the closed forms of the two BMR formulas, in 1/100000 kcal
C4_MaleForm ==
    8836200 + 13397 * profile.weight + 479900 * profile.height
        - 567700 * profile.age
C4_FemaleForm ==
    44759300 + 9247 * profile.weight + 309800 * profile.height
        - 433000 * profile.age

\* C4 as stated: bmr follows the male formula for "male" and the female
\* formula for "female", and for every validated age, height and weight the
\* male and the female result are different.
C4_AlwaysDifferent ==
    calcRuns > 0 =>
        /\ profile.gender = male => profile.bmr = C4_MaleForm
        /\ profile.gender = female => profile.bmr = C4_FemaleForm
        /\ maleBMR(profile.weight, profile.height, profile.age)
              # femaleBMR(profile.weight, profile.height, profile.age)

\* C4 amended: bmr follows the male formula for "male" and the female
\* formula for "female"; the male result minus the female result is
\* 4.15*weight + 170.1*height - 1.347*age - 359.231, so the two differ
\* except where that expression is zero.
C4_DifferExceptOnPlane ==
    calcRuns > 0 =>
        LET m == maleBMR(profile.weight, profile.height, profile.age)
            f == femaleBMR(profile.weight, profile.height, profile.age)
            plane == 4150 * profile.weight + 170100 * profile.height
                        - 134700 * profile.age - 35923100
        IN  /\ profile.gender = male => profile.bmr = C4_MaleForm
            /\ profile.gender = female => profile.bmr = C4_FemaleForm
            /\ profile.gender \in {male, female}
            /\ m = C4_MaleForm /\ f = C4_FemaleForm
            /\ m - f = plane
            /\ m # f <=> plane # 0

\* C4 witness: age 72, height 1.55, weight 46.4, for which both formulas
\* give 1045.0838.
C4_Witness ==
    /\ calcRuns > 0
    /\ profile.age = 72 /\ profile.height = 155 /\ profile.weight = 4640
    /\ profile.bmr = 104508380
    /\ C4_MaleForm = C4_FemaleForm

C5_CasePairs ==
    { <<"A","a">>, <<"B","b">>, <<"C","c">>, <<"D","d">>, <<"E","e">>,
      <<"F","f">>, <<"G","g">>, <<"H","h">>, <<"I","i">>, <<"J","j">>,
      <<"K","k">>, <<"L","l">>, <<"M","m">>, <<"N","n">>, <<"O","o">>,
      <<"P","p">>, <<"Q","q">>, <<"R","r">>, <<"S","s">>, <<"T","t">>,
      <<"U","u">>, <<"V","v">>, <<"W","w">>, <<"X","x">>, <<"Y","y">>,
      <<"Z","z">> }

\* text and value are the same up to the case of letters
C5_SameIgnoringCase(text, value) ==
    /\ Len(text) = Len(value)
    /\ \A i \in 1..Len(text) :
          text[i] = value[i] \/ <<text[i], value[i]>> \in C5_CasePairs

C5_Allowed(f) ==
    CASE f = "gender" -> {male, female}
      [] f = "activityLevel" ->
            {sedentary, lightlyActive, moderatelyActive, veryActive}
      [] f = "lifestyle" -> {smoking, alcohol, none}
      [] f = "dietaryPref" -> {vegetarian, vegan, none}

\* C5: a line entered at a string prompt is accepted exactly when it equals
\* one of the field's allowed values up to letter case, the stored value is
\* that allowed (lower-case) value, and any other line is rejected with the
\* prompt repeated (the profile is looked at while it exists, that is unless
\* an exception has unwound collectUserData).
C5_CaseInsensitiveAccept ==
    (last.field \in StringFields /\ last.source = "line") =>
        LET matches == { v \in C5_Allowed(last.field) :
                            C5_SameIgnoringCase(last.text, v) }
        IN  /\ last.outcome \in {"accepted", "rejected"}
            /\ last.outcome = "accepted" <=> matches # {}
            /\ (last.outcome = "accepted" /\ ~thrown) =>
                  profile[last.field] \in matches
            /\ (last.outcome = "rejected" /\ ~thrown) =>
                  /\ pc = last.field
                  /\ out = <<"Invalid input. Please try again.",
                             Prompt(last.field)>>

\* C5 witness: "MALE" was entered at the gender prompt and "male" stored.
C5_Witness ==
    /\ last.field = "gender"
    /\ last.text = <<"M","A","L","E">>
    /\ last.outcome = "accepted"
    /\ profile.gender = male

\* the whole line is one decimal number
C6_IsNumber(text) ==
    LET r == ExtractDouble(text)
    IN  r.ok /\ SkipSpace(r.rest) = <<>>

\* C6: a non-blank line that is not a number, entered at a numeric prompt, is
\* treated as an out-of-range number: nothing from it is stored, the
\* "Invalid input" message and the same prompt follow, the rest of the line
\* is discarded and the program stays on the field.
C6_NonNumberRejected ==
    (/\ last.field \in NumericFields
     /\ last.source = "line"
     /\ SkipSpace(last.text) # <<>>
     /\ ~C6_IsNumber(last.text)) =>
        /\ last.outcome = "rejected"
        /\ pc = last.field
        /\ buf = <<>>
        /\ out = <<InvalidMessage(last.field), Prompt(last.field)>>

\* the hundredths printed for the three macronutrients turn back into the
\* hundredths printed for the daily total, each printed number being off by
\* at most half a hundredth
C7_Tolerance == (4 + 4 + 9 + 1) \div 2

\* C7: carbs*4 + protein*4 + fat*9 of the printed gram amounts equals the
\* printed dailyCalories within rounding tolerance.
C7_MacrosSumToCalories ==
    displayRuns > 0 =>
        LET back == 4 * results.carbs + 4 * results.protein + 9 * results.fats
        IN  /\ back - results.dailyCalories <= C7_Tolerance
            /\ results.dailyCalories - back <= C7_Tolerance

\* C7 witness: printed amounts whose calories differ from the printed total
\* by rounding only (3074.98 against 3074.99).
C7_Witness ==
    /\ displayRuns > 0
    /\ results.dailyCalories = 307499
    /\ 4 * results.carbs + 4 * results.protein + 9 * results.fats = 307498

\* C8: the exercise block agrees with the printed category: the low-impact
\* block exactly when the category is Overweight or Obese (bmi >= 24.9), the
\* balanced-routine block exactly when it is Underweight or Normal weight,
\* and one of the two in every session.
C8_ExerciseMatchesCategory ==
    displayRuns > 0 =>
        /\ results.exercise \in
              {"low-impact activities", "balanced exercise routine"}
        /\ results.exercise = "low-impact activities"
              <=> results.category \in {"Overweight", "Obese"}
        /\ results.exercise = "balanced exercise routine"
              <=> results.category \in {"Underweight", "Normal weight"}
        /\ results.exercise = "low-impact activities"
              <=> profile.bmi.num * 10 >= 249 * profile.bmi.den

\* C8 witness: a bmi of exactly 24.9 (99.6 kg, 2 m), printed as Overweight
\* with the low-impact block.
C8_Witness ==
    /\ displayRuns > 0
    /\ profile.bmi.num * 10 = 249 * profile.bmi.den
    /\ results.category = "Overweight"
    /\ results.exercise = "low-impact activities"

\* C9: the fields are filled in the order of FieldOrder, one value per line:
\* every read attempt for a field takes its text from a line entered after
\* the line that gave the previous field its value, never from what was left
\* of that line.
C9_OneValuePerLine ==
    /\ \A i \in 1..Len(FieldOrder) :
          pc = FieldOrder[i] =>
              /\ \A j \in 1..(i - 1) : FieldOrder[j] \in assigned
              /\ \A j \in i..Len(FieldOrder) :
                    FieldOrder[j] \in NumericFields => FieldOrder[j] \notin assigned
    /\ last.outcome \in {"accepted", "rejected"} => last.source # "leftover"

\* what holds of the counters and the exit code in every state
C10_RunsOnceAndExitsZero ==
    /\ calcRuns <= 1
    /\ displayRuns <= calcRuns
    /\ exitCode = 1 => thrown
    /\ pc # "exit" => (exitCode = 0 - 1 /\ ~thrown)
    /\ (pc = "exit" /\ ~thrown) =>
          (exitCode = 0 /\ calcRuns = 1 /\ displayRuns = 1)
    /\ (last.outcome = "rejected" /\ ~thrown) => pc = last.field

\* C10: a rejected entry never ends the session and there is no limit on
\* attempts: if an acceptable line is eventually entered at every prompt, the
\* session ends, with exit code 0 after exactly one calculateMetrics and one
\* displayResults unless an exception was thrown; exit code 1 only after an
\* exception.
C10_SessionCompletes ==
    /\ []C10_RunsOnceAndExitsZero
    /\ <>(eof \/ pc = "exit")

\* C10 witness: a session that ended with exit code 0 after two rejected
\* entries.
C10_Witness ==
    /\ pc = "exit"
    /\ exitCode = 0
    /\ rejected >= 2
    /\ calcRuns = 1
    /\ displayRuns = 1

=============================================================================
